---------------------------- MODULE Spec2Model ----------------------------
(***************************************************************************)
(* A model of the ZIP writer of Zipios: ZipOutputStreambuf (putNextEntry,  *)
(* byte writes, closeEntry, finish), the central directory entry codec     *)
(* (ZipCentralDirectoryEntry::write / getHeaderSize) and the collaborators *)
(* they call.  The lower sink is modelled byte for byte: a sequence of     *)
(* bytes plus a write position, so that offsets, sizes and back-patching   *)
(* are what the code computes and not what the model assumes.              *)
(***************************************************************************)
EXTENDS Integers, Sequences, FiniteSets, TLC

(***************************************************************************)
(* Bounds of the model.                                                    *)
(***************************************************************************)
\* The number of operations called on one writer.
MaxCalls == 5

\* The number of calls made on one central directory entry.
MaxCodecCalls == 2

\* The number of calls made on one reader once it is constructed.
MaxReaderCalls == 6

\* The sizes of the reader's buffers, in bytes: _outvecsize, of the buffer
\* the consumer gets its bytes from, and _invecsize, of the buffer the
\* compressed bytes are staged in.
OutvecSize == 2
InvecSize == 5

(***************************************************************************)
(* ByteCodec: little-endian integers, CRC-32.                              *)
(***************************************************************************)
Pow2_8 == 256
Pow2_16 == 65536

RECURSIVE XOR(_, _)
XOR(a, b) ==
    IF a = 0 THEN b
    ELSE IF b = 0 THEN a
    ELSE 2 * XOR(a \div 2, b \div 2) + ((a + b) % 2)

\* A 32-bit unsigned word is kept as <<high 16 bits, low 16 bits>>: the
\* checker's integers are narrower than uint32_t.
U32(v) == << (v \div Pow2_16) % Pow2_16, v % Pow2_16 >>

zipWrite16(v) == << v % Pow2_8, (v \div Pow2_8) % Pow2_8 >>

zipWrite32(w) == zipWrite16(w[2]) \o zipWrite16(w[1])

zipRead16(buf, off) == buf[off + 1] + Pow2_8 * buf[off + 2]

zipRead32(buf, off) == << zipRead16(buf, off + 2), zipRead16(buf, off) >>

CrcPolyHi == 60856
CrcPolyLo == 33568

\* One step of the reflected CRC-32 register: shift right by one bit and
\* fold the polynomial 0xEDB88320 in when the bit shifted out is set.
RECURSIVE CrcShift(_, _)
CrcShift(w, n) ==
    IF n = 0 THEN w
    ELSE LET hi == w[1] \div 2
             lo == (w[2] \div 2) + (w[1] % 2) * (Pow2_16 \div 2)
         IN  CrcShift(IF w[2] % 2 = 1
                        THEN << XOR(hi, CrcPolyHi), XOR(lo, CrcPolyLo) >>
                        ELSE << hi, lo >>,
                      n - 1)

CrcNot(w) == << (Pow2_16 - 1) - w[1], (Pow2_16 - 1) - w[2] >>

\* zlib-style running CRC: the value is conditioned on entry and on exit.
crc32Byte(crc, b) ==
    CrcNot(CrcShift(<< CrcNot(crc)[1], XOR(CrcNot(crc)[2], b) >>, 8))

RECURSIVE crc32(_, _)
crc32(crc, bytes) ==
    IF bytes = << >> THEN crc
    ELSE crc32(crc32Byte(crc, Head(bytes)), Tail(bytes))

RECURSIVE OR(_, _)
OR(a, b) ==
    IF a = 0 THEN b
    ELSE IF b = 0 THEN a
    ELSE 2 * OR(a \div 2, b \div 2) + (IF a % 2 = 1 \/ b % 2 = 1 THEN 1 ELSE 0)

RECURSIVE SumSeq(_)
SumSeq(q) == IF q = << >> THEN 0 ELSE Head(q) + SumSeq(Tail(q))

Max(a, b) == IF a >= b THEN a ELSE b

(***************************************************************************)
(* TimeCodec: seconds since the epoch (UTC) to a packed DOS timestamp.     *)
(***************************************************************************)
DosEpoch == 315532800

\* 1980-01-01 00:00:00 as <<packed date, packed time>>.
DosCanonical == << 33, 0 >>

CivilFromDays(z0) ==
    LET z   == z0 + 719468
        era == z \div 146097
        doe == z - era * 146097
        yoe == (doe - doe \div 1460 + doe \div 36524 - doe \div 146096) \div 365
        doy == doe - (365 * yoe + yoe \div 4 - yoe \div 100)
        mp  == (5 * doy + 2) \div 153
        d   == doy - (153 * mp + 2) \div 5 + 1
        m   == IF mp < 10 THEN mp + 3 ELSE mp - 9
        y   == yoe + era * 400 + (IF m <= 2 THEN 1 ELSE 0)
    IN  [year |-> y, month |-> m, day |-> d]

\* The DOS timestamp as a 32-bit word: the date in the high half, the time
\* of day in the low half.
unix2dostime(t) ==
    IF t < DosEpoch THEN DosCanonical
    ELSE LET c   == CivilFromDays(t \div 86400)
             sod == t % 86400
         IN  IF c.year - 1980 > 127 THEN DosCanonical
             ELSE << (c.year - 1980) * 512 + c.month * 32 + c.day,
                     (sod \div 3600) * 2048 + ((sod \div 60) % 60) * 32
                        + (sod % 60) \div 2 >>

(***************************************************************************)
(* Storage methods and entries.                                            *)
(***************************************************************************)
STORED == 0
DEFLATED == 8

\* An entry as the writer holds it (ZipCDirEntry / ZipCentralDirectoryEntry).
\* crc_32 is a 32-bit word; sizes and offsets are plain numbers.
Entry(name, extra, comment, crc, csize, usize, time) ==
    [ filename          |-> name,
      extra_field       |-> extra,
      file_comment      |-> comment,
      compress_method   |-> DEFLATED,
      unix_time         |-> time,
      crc_32            |-> crc,
      compressed_size   |-> csize,
      uncompressed_size |-> usize,
      entry_offset      |-> 0,
      extract_version   |-> 20,
      gp_bitfield       |-> 0 ]

(***************************************************************************)
(* LocalEntry codec (write side).                                          *)
(***************************************************************************)
LocalSignature == << 1027, 19280 >>
LocalFixedSize == 30

getLocalHeaderSize(e) == LocalFixedSize + Len(e.filename) + Len(e.extra_field)

\* os << static_cast< ZipLocalEntry >( ent )
LocalEntryBytes(e) ==
    zipWrite32(LocalSignature)
    \o zipWrite16(e.extract_version)
    \o zipWrite16(e.gp_bitfield)
    \o zipWrite16(e.compress_method)
    \o zipWrite32(unix2dostime(e.unix_time))
    \o zipWrite32(e.crc_32)
    \o zipWrite32(U32(e.compressed_size))
    \o zipWrite32(U32(e.uncompressed_size))
    \o zipWrite16(Len(e.filename))
    \o zipWrite16(Len(e.extra_field))
    \o e.filename
    \o e.extra_field

(***************************************************************************)
(* CentralEntry codec: ZipCentralDirectoryEntry.                           *)
(***************************************************************************)
g_signature == << 513, 19280 >>
g_unix == 768
g_zip_format_version == 20

\* struct ZipCentralDirectoryEntryHeader: the width of each member in
\* declaration order.
ZipCentralDirectoryEntryHeader ==
    << 4, 2, 2, 2, 2, 4, 4, 4, 4, 2, 2, 2, 2, 2, 4, 4 >>

AlignUp(off, a) == ((off + a - 1) \div a) * a

\* sizeof of a struct of unsigned integers: every member sits at the next
\* multiple of its own width, and the struct is padded to its widest member.
RECURSIVE StructEnd(_, _)
StructEnd(members, off) ==
    IF members = << >> THEN off
    ELSE StructEnd(Tail(members), AlignUp(off, Head(members)) + Head(members))

RECURSIVE MaxSeq(_)
MaxSeq(q) == IF q = << >> THEN 1 ELSE Max(Head(q), MaxSeq(Tail(q)))

sizeofStruct(members) == AlignUp(StructEnd(members, 0), MaxSeq(members))

getHeaderSize(e) ==
    sizeofStruct(ZipCentralDirectoryEntryHeader)
    + Len(e.filename) + Len(e.extra_field) + Len(e.file_comment)

\* The two size checks that open ZipCentralDirectoryEntry::write().
CDirWriteThrows(e) ==
    \/ Len(e.filename) > Pow2_16
    \/ Len(e.extra_field) > Pow2_16
    \/ Len(e.file_comment) > Pow2_16
    \/ e.compressed_size \div Pow2_16 >= Pow2_16
    \/ e.uncompressed_size \div Pow2_16 >= Pow2_16
    \/ e.entry_offset \div Pow2_16 >= Pow2_16

extern_file_attr == << 33204, 0 >>

\* write() that emits the two sizes in the other order.
CDirEntryBytes_SizesSwapped(e) ==
    zipWrite32(g_signature)
    \o zipWrite16(OR(g_zip_format_version, g_unix))
    \o zipWrite16(e.extract_version)
    \o zipWrite16(e.gp_bitfield)
    \o zipWrite16(e.compress_method % Pow2_8)
    \o zipWrite32(unix2dostime(e.unix_time))
    \o zipWrite32(e.crc_32)
    \o zipWrite32(U32(e.uncompressed_size))
    \o zipWrite32(U32(e.compressed_size))
    \o zipWrite16(Len(e.filename) % Pow2_16)
    \o zipWrite16(Len(e.extra_field) % Pow2_16)
    \o zipWrite16(Len(e.file_comment) % Pow2_16)
    \o zipWrite16(0)
    \o zipWrite16(0)
    \o zipWrite32(extern_file_attr)
    \o zipWrite32(U32(e.entry_offset))
    \o e.filename
    \o e.extra_field
    \o e.file_comment

\* The bytes ZipCentralDirectoryEntry::write() emits once the checks passed.
CDirEntryBytes(e) ==
    zipWrite32(g_signature)
    \o zipWrite16(OR(g_zip_format_version, g_unix))
    \o zipWrite16(e.extract_version)
    \o zipWrite16(e.gp_bitfield)
    \o zipWrite16(e.compress_method % Pow2_8)
    \o zipWrite32(unix2dostime(e.unix_time))
    \o zipWrite32(e.crc_32)
    \o zipWrite32(U32(e.compressed_size))
    \o zipWrite32(U32(e.uncompressed_size))
    \o zipWrite16(Len(e.filename) % Pow2_16)
    \o zipWrite16(Len(e.extra_field) % Pow2_16)
    \o zipWrite16(Len(e.file_comment) % Pow2_16)
    \o zipWrite16(0)
    \o zipWrite16(0)
    \o zipWrite32(extern_file_attr)
    \o zipWrite32(U32(e.entry_offset))
    \o e.filename
    \o e.extra_field
    \o e.file_comment

(***************************************************************************)
(* EndOfCentralDirectory codec (write side).                               *)
(***************************************************************************)
EocdSignature == << 1541, 19280 >>
EocdFixedSize == 22

EocdBytes(total_count, cdir_size, cdir_offset, comment) ==
    zipWrite32(EocdSignature)
    \o zipWrite16(0)
    \o zipWrite16(0)
    \o zipWrite16(total_count)
    \o zipWrite16(total_count)
    \o zipWrite32(U32(cdir_size))
    \o zipWrite32(U32(cdir_offset))
    \o zipWrite16(Len(comment))
    \o comment

(***************************************************************************)
(* The lower sink: a seekable byte sequence with a write position.         *)
(***************************************************************************)
\* Write bytes at position pos (0-based), overwriting and extending.
Overwrite(buf, pos, bytes) ==
    [ i \in 1 .. Max(Len(buf), pos + Len(bytes)) |->
        IF i > pos /\ i <= pos + Len(bytes) THEN bytes[i - pos] ELSE buf[i] ]

\* st is the writer's state as a record: outbuf, outpos, entries,
\* open_entry, codec.
SinkPut(st, bytes) ==
    [ st EXCEPT !.outbuf = Overwrite(st.outbuf, st.outpos, bytes),
                !.outpos = st.outpos + Len(bytes) ]

(***************************************************************************)
(* DeflateOutputBuf: the compression stage.  The compressor is the one     *)
(* that emits stored blocks: it keeps what it was offered until a flush,   *)
(* then emits one block (header byte, LEN, NLEN, data).                    *)
(***************************************************************************)
EOF == -1

DeflateBlock(final, data) ==
    << final >> \o zipWrite16(Len(data))
                \o zipWrite16((Pow2_16 - 1) - Len(data)) \o data

DeflateNew(level) ==
    [ uncompressed_count |-> 0,
      compressed_count   |-> 0,
      crc32              |-> << 0, 0 >>,
      finished           |-> FALSE,
      inbuf              |-> << >>,
      level              |-> level ]

\* The stage as ZipOutputStreambuf constructs it, with user_init false:
\* nothing was offered and nothing was finished.
DeflateIdle(level) == DeflateNew(level)

\* init( level ): start a fresh DEFLATE stream.
init(st, level) == [ st EXCEPT !.codec = DeflateNew(level) ]

\* DeflateOutputStreambuf::overflow( c ): an error once the stream was
\* finished, else the byte is taken by the compressor and counted.
DeflateAccepts(st) == ~ st.codec.finished

DeflateOverflow(st, c) ==
    IF ~ DeflateAccepts(st) THEN st
    ELSE [ st EXCEPT
             !.codec.inbuf = Append(st.codec.inbuf, c),
             !.codec.uncompressed_count = st.codec.uncompressed_count + 1,
             !.codec.crc32 = crc32Byte(st.codec.crc32, c) ]

\* DeflateOutputStreambuf::sync(): everything offered so far reaches the
\* sink; the stream stays open.
DeflateSync(st) ==
    IF st.codec.finished \/ st.codec.inbuf = << >> THEN st
    ELSE LET out == DeflateBlock(0, st.codec.inbuf)
         IN  [ SinkPut(st, out) EXCEPT
                 !.codec.inbuf = << >>,
                 !.codec.compressed_count = st.codec.compressed_count + Len(out) ]

\* closeStream(): close the DEFLATE stream and emit its last block.
closeStream(st) ==
    IF st.codec.finished THEN st
    ELSE LET out == DeflateBlock(1, st.codec.inbuf)
         IN  [ SinkPut(st, out) EXCEPT
                 !.codec.inbuf = << >>,
                 !.codec.finished = TRUE,
                 !.codec.compressed_count = st.codec.compressed_count + Len(out) ]

(***************************************************************************)
(* ZipOutputStreambuf.                                                     *)
(***************************************************************************)
SetLast(q, e) == [ q EXCEPT ![Len(q)] = e ]

\* overflow( c ) and sync() hand over to the compression stage, whatever
\* the method and whether or not an entry is open.
overflow(st, c) == DeflateOverflow(st, c)

sync(st) == DeflateSync(st)

setEntryClosedState(st) == [ st EXCEPT !.open_entry = FALSE ]

updateEntryHeaderInfo(st) ==
    IF ~ st.open_entry THEN st
    ELSE LET s1       == sync(st)
             curr_pos == s1.outpos
             old      == s1.entries[Len(s1.entries)]
             entry    == [ old EXCEPT
                             !.uncompressed_size = 0,
                             !.compressed_size =
                                 curr_pos - old.entry_offset
                                          - getLocalHeaderSize(old) ]
             s2       == [ s1 EXCEPT !.entries = SetLast(s1.entries, entry),
                                     !.outpos = entry.entry_offset ]
             s3       == SinkPut(s2, LocalEntryBytes(entry))
         IN  [ s3 EXCEPT !.outpos = curr_pos ]

\* closeEntry that measures and back-patches before it finishes the stream.
closeEntry_MeasureFirst(st) ==
    IF ~ st.open_entry THEN st
    ELSE setEntryClosedState(closeStream(updateEntryHeaderInfo(st)))

closeEntry(st) ==
    IF ~ st.open_entry THEN st
    ELSE setEntryClosedState(updateEntryHeaderInfo(closeStream(st)))

\* putNextEntry that starts the new entry over the one still open.
putNextEntry_NoClose(st, entry, method, level) ==
    LET s2  == IF method = DEFLATED THEN init(st, level) ELSE st
        ent == [ entry EXCEPT !.entry_offset = s2.outpos,
                              !.compress_method = method ]
        s3  == [ s2 EXCEPT !.entries = Append(s2.entries, ent) ]
    IN  [ SinkPut(s3, LocalEntryBytes(ent)) EXCEPT !.open_entry = TRUE ]

putNextEntry(st, entry, method, level) ==
    LET s1  == IF st.open_entry THEN closeEntry(st) ELSE st
        s2  == IF method = DEFLATED THEN init(s1, level) ELSE s1
        ent == [ entry EXCEPT !.entry_offset = s2.outpos,
                              !.compress_method = method ]
        s3  == [ s2 EXCEPT !.entries = Append(s2.entries, ent) ]
    IN  [ SinkPut(s3, LocalEntryBytes(ent)) EXCEPT !.open_entry = TRUE ]

\* The loop of writeCentralDirectory: os << *it for the entries from i on.
\* A write() that throws leaves the loop with nothing more written.
RECURSIVE WriteCDirEntries(_, _)
WriteCDirEntries(st, i) ==
    IF i > Len(st.entries) THEN [ st |-> st, threw |-> FALSE ]
    ELSE IF CDirWriteThrows(st.entries[i]) THEN [ st |-> st, threw |-> TRUE ]
    ELSE WriteCDirEntries(SinkPut(st, CDirEntryBytes(st.entries[i])), i + 1)

CDirSize(entries) ==
    SumSeq([ i \in 1 .. Len(entries) |-> getHeaderSize(entries[i]) ])

writeCentralDirectory(st, comment) ==
    LET cdir_start == st.outpos
        w          == WriteCDirEntries(st, 1)
    IN  IF w.threw THEN w
        ELSE [ st    |-> SinkPut(w.st, EocdBytes(Len(st.entries),
                                                 CDirSize(st.entries),
                                                 cdir_start, comment)),
               threw |-> FALSE ]

finish(st, comment) == writeCentralDirectory(closeEntry(st), comment)

(***************************************************************************)
(* State.                                                                  *)
(***************************************************************************)
VARIABLES
    outbuf,        \* the bytes of the lower sink
    outpos,        \* the lower sink's write position
    _entries,      \* the records written so far
    _open_entry,   \* an entry is open
    _open,         \* the archive is open
    _method,       \* the current storage method
    _level,        \* the current compression level
    _zip_comment,  \* the archive comment
    codec,         \* the compression stage
    offered,       \* history: the bytes written to the entry opened last
    calls,         \* history: the number of calls made, and the names given
                   \* to putNextEntry in call order
    last           \* history: the operation that ran last

vars == << outbuf, outpos, _entries, _open_entry, _open, _method, _level,
           _zip_comment, codec, offered, calls, last >>

\* The state of the central directory entry codec on its own: one entry
\* object, the stream handed to its read() or write(), and what the last
\* call returned.
VARIABLES
    centry,        \* a ZipCentralDirectoryEntry
    cstream,       \* the std::istream / std::ostream of the last call
    cret           \* history: the last call and its result

cvars == << centry, cstream, cret >>

\* The state of the ZIP reader, ZipInputStreambuf, over its lower source.
VARIABLES
    src,           \* the lower source _inbuf: its bytes
    srcpos,        \* the lower source: its read position
    heap,          \* the entry objects: heap[1] is the member m_curr_entry,
                   \* the others were allocated by getNextEntry()
    m_open_entry,  \* an entry is open
    m_data_start,  \* where the payload of the current entry starts
    m_remain,      \* STORED: the bytes not yet put in the output buffer
    garea,         \* the get area: the bytes of m_outvec between eback()
                   \* and egptr(), and how many of them were consumed
    zs,            \* the inflate engine
    rhist          \* history: what the consumer did and was given

rvars == << src, srcpos, heap, m_open_entry, m_data_start, m_remain, garea,
            zs, rhist >>

\* The state of a DirectoryCollection and of the directory it stands for.
VARIABLES
    m_valid,           \* the collection is valid
    m_entries_loaded,  \* the directory was read into m_entries
    m_recursive,       \* subdirectories are read too
    m_entries,         \* the entries: the names of the files, in order
    dirfs,             \* what is at m_filepath in the filesystem
    dhist              \* history: the last call and its result

dvars == << m_valid, m_entries_loaded, m_recursive, m_entries, dirfs, dhist >>

\* A model of the writer leaves the codec and the reader alone, and so on.
CodecOff == centry = << >> /\ cstream = << >> /\ cret = << >>

ReaderOff ==
    /\ src = << >> /\ srcpos = 0 /\ heap = << >> /\ m_open_entry = FALSE
    /\ m_data_start = 0 /\ m_remain = 0 /\ garea = << >> /\ zs = << >>
    /\ rhist = << >>

DirOff ==
    /\ m_valid = FALSE /\ m_entries_loaded = FALSE /\ m_recursive = FALSE
    /\ m_entries = << >> /\ dirfs = << >> /\ dhist = << >>

\* The writer's state as the record the operators work on, and back.
Cur ==
    [ outbuf |-> outbuf, outpos |-> outpos, entries |-> _entries,
      open_entry |-> _open_entry, codec |-> codec ]

Becomes(st) ==
    /\ outbuf' = st.outbuf
    /\ outpos' = st.outpos
    /\ _entries' = st.entries
    /\ _open_entry' = st.open_entry
    /\ codec' = st.codec

\* What the history keeps of a call: its name, its result, and the state it
\* started from (mark: the sink position at which it began to append).
Call(op, ret, mark) ==
    [ op |-> op, ret |-> ret, mark |-> mark,
      pos0 |-> outpos, len0 |-> Len(outbuf), n0 |-> Len(_entries),
      open0 |-> _open, open_entry0 |-> _open_entry ]

\* Of a setter or a sync the history keeps no more than that it ran.
Other(op) ==
    [ op |-> op, ret |-> 0, mark |-> 0, pos0 |-> 0, len0 |-> 0, n0 |-> 0,
      open0 |-> TRUE, open_entry0 |-> FALSE ]

(***************************************************************************)
(* Inputs.                                                                 *)
(***************************************************************************)
Bytes == { 97, 255 }
Comments == { << >>, << 33 >> }
Levels == { 6, 9 }
Methods == { STORED, DEFLATED }

\* A fresh entry as ZipOutputStream::putNextEntry( name ) makes it, and an
\* entry that comes filled in, as one copied from another archive does.
EntryInputs ==
    { Entry(<< 97 >>, << >>, << >>, << 0, 0 >>, 0, 0, 0),
      Entry(<< 98, 99 >>, << 7 >>, << 35 >>, << 57005, 48879 >>, 3, 5,
            1000000000) }

Init ==
    /\ outbuf = << >>
    /\ outpos = 0
    /\ _entries = << >>
    /\ _open_entry = FALSE
    /\ _open = TRUE
    /\ _method = DEFLATED
    /\ _level = 6
    /\ _zip_comment = << >>
    /\ codec = DeflateIdle(6)
    /\ offered = << >>
    /\ calls = [ put |-> << >>, all |-> 0 ]
    /\ last = [ op |-> "new", ret |-> 0, mark |-> 0, pos0 |-> 0, len0 |-> 0,
                n0 |-> 0, open0 |-> TRUE, open_entry0 |-> FALSE ]
    /\ CodecOff
    /\ ReaderOff
    /\ DirOff

(***************************************************************************)
(* Operations.                                                             *)
(***************************************************************************)
PutNextEntry ==
    \E e \in EntryInputs :
        /\ calls.all < MaxCalls
        /\ Becomes(putNextEntry(Cur, e, _method, _level))
        /\ offered' = << >>
        /\ calls' = [ put |-> Append(calls.put, e.filename),
                      all |-> calls.all + 1 ]
        /\ UNCHANGED << cvars, rvars, dvars >>
        /\ last' = Call("putNextEntry", 0,
                        (IF _open_entry THEN closeEntry(Cur) ELSE Cur).outpos)
        /\ UNCHANGED << _open, _method, _level, _zip_comment >>

\* ZipOutputStreambuf::overflow( c ): one byte written by the caller.
Write ==
    \E c \in Bytes :
        /\ calls.all < MaxCalls
        /\ Becomes(overflow(Cur, c))
        /\ offered' = IF _open_entry THEN Append(offered, c) ELSE offered
        /\ calls' = [ calls EXCEPT !.all = calls.all + 1 ]
        /\ UNCHANGED << cvars, rvars, dvars >>
        /\ last' = Call("write", IF DeflateAccepts(Cur) THEN 0 ELSE EOF, outpos)
        /\ UNCHANGED << _open, _method, _level, _zip_comment >>

\* ZipOutputStreambuf::sync()
Sync ==
    /\ calls.all < MaxCalls
    /\ Becomes(sync(Cur))
    /\ calls' = [ calls EXCEPT !.all = calls.all + 1 ]
    /\ UNCHANGED << cvars, rvars, dvars >>
    /\ last' = Other("sync")
    /\ UNCHANGED << _open, _method, _level, _zip_comment, offered >>

CloseEntry ==
    /\ calls.all < MaxCalls
    /\ Becomes(closeEntry(Cur))
    /\ calls' = [ calls EXCEPT !.all = calls.all + 1 ]
    /\ UNCHANGED << cvars, rvars, dvars >>
    /\ last' = Call("closeEntry", 0, outpos)
    /\ UNCHANGED << _open, _method, _level, _zip_comment, offered >>

FinishBody(op) ==
    LET r == finish(Cur, _zip_comment)
    IN  /\ calls.all < MaxCalls
        /\ Becomes(r.st)
        /\ _open' = IF r.threw THEN _open ELSE FALSE
        /\ calls' = [ calls EXCEPT !.all = calls.all + 1 ]
        /\ UNCHANGED << cvars, rvars, dvars >>
        /\ last' = Call(op, IF r.threw THEN EOF ELSE 0, closeEntry(Cur).outpos)
        /\ UNCHANGED << _method, _level, _zip_comment, offered >>

Finish == FinishBody("finish")

\* ZipOutputStreambuf::close() is finish() and nothing more.
Close == FinishBody("finish")

SetComment ==
    \E c \in Comments :
        /\ calls.all < MaxCalls
        /\ _zip_comment' = c
        /\ calls' = [ calls EXCEPT !.all = calls.all + 1 ]
        /\ UNCHANGED << cvars, rvars, dvars >>
        /\ last' = Other("set")
        /\ UNCHANGED << outbuf, outpos, _entries, _open_entry, _open, _method,
                        _level, codec, offered >>

SetLevel ==
    \E l \in Levels :
        /\ calls.all < MaxCalls
        /\ _level' = l
        /\ calls' = [ calls EXCEPT !.all = calls.all + 1 ]
        /\ UNCHANGED << cvars, rvars, dvars >>
        /\ last' = Other("set")
        /\ UNCHANGED << outbuf, outpos, _entries, _open_entry, _open, _method,
                        _zip_comment, codec, offered >>

SetMethod ==
    \E m \in Methods :
        /\ calls.all < MaxCalls
        /\ _method' = m
        /\ calls' = [ calls EXCEPT !.all = calls.all + 1 ]
        /\ UNCHANGED << cvars, rvars, dvars >>
        /\ last' = Other("set")
        /\ UNCHANGED << outbuf, outpos, _entries, _open_entry, _open, _level,
                        _zip_comment, codec, offered >>

Next ==
    \/ PutNextEntry
    \/ Write
    \/ Sync
    \/ CloseEntry
    \/ Finish
    \/ Close
    \/ SetComment
    \/ SetLevel
    \/ SetMethod

Spec == Init /\ [][Next]_vars

(***************************************************************************)
(* Reading the sink back, for the properties below.                        *)
(***************************************************************************)
Slice(buf, off, n) == SubSeq(buf, off + 1, off + n)

W2N(w) == w[1] * Pow2_16 + w[2]

LastEntry == _entries[Len(_entries)]

\* The state right after a closeEntry() that found an entry open.
JustClosed == last.op = "closeEntry" /\ last.open_entry0

\* The state right after a finish() or close() that completed.
JustFinished == last.op = "finish" /\ last.ret = 0

\* The fields of the local header at offset off of the sink.
LocalCrcAt(off) == zipRead32(outbuf, off + 14)
LocalCompressedSizeAt(off) == zipRead32(outbuf, off + 18)
LocalUncompressedSizeAt(off) == zipRead32(outbuf, off + 22)

\* The end-of-central-directory record is the last thing finish() writes.
EocdOffset == Len(outbuf) - EocdFixedSize - Len(_zip_comment)
EocdTotalCount == zipRead16(outbuf, EocdOffset + 10)
EocdCDirSize == W2N(zipRead32(outbuf, EocdOffset + 12))
EocdCDirOffset == W2N(zipRead32(outbuf, EocdOffset + 16))

\* cdir_header_size as the data model defines it.
cdir_header_size(e) ==
    46 + Len(e.filename) + Len(e.extra_field) + Len(e.file_comment)

\* The sink holds the central records of entries i.. from offset off on.
RECURSIVE CDirRecordsAt(_, _)
CDirRecordsAt(i, off) ==
    \/ i > Len(_entries)
    \/ /\ Slice(outbuf, off, Len(CDirEntryBytes(_entries[i])))
            = CDirEntryBytes(_entries[i])
       /\ CDirRecordsAt(i + 1, off + Len(CDirEntryBytes(_entries[i])))

CDirBytesLen ==
    SumSeq([ i \in 1 .. Len(_entries) |-> Len(CDirEntryBytes(_entries[i])) ])

(***************************************************************************)
(* C1.  After putNextEntry, byte writes totalling n bytes and closeEntry,  *)
(* the entry's uncompressed_size, in the entries list and in the           *)
(* back-patched local header, is n.                                        *)
(***************************************************************************)
C1_UncompressedSizeIsBytesWritten ==
    JustClosed =>
        /\ LastEntry.uncompressed_size = Len(offered)
        /\ LocalUncompressedSizeAt(LastEntry.entry_offset) = U32(Len(offered))

(***************************************************************************)
(* C2.  After closeEntry the entry's crc32, in the entries list and in the *)
(* back-patched local header, is the CRC-32 of the bytes written to the    *)
(* entry, whatever value the caller passed in.                             *)
(***************************************************************************)
C2_CrcIsCrcOfBytesWritten ==
    JustClosed =>
        /\ LastEntry.crc_32 = crc32(<< 0, 0 >>, offered)
        /\ LocalCrcAt(LastEntry.entry_offset) = crc32(<< 0, 0 >>, offered)

(***************************************************************************)
(* C3.  closeEntry finishes the codec stream before it measures: the       *)
(* recorded compressed_size is cur_pos - entry_offset - header_size, which *)
(* is every byte the sink holds past the entry's local header, the last    *)
(* block of the stream included; the local header is back-patched with it, *)
(* and the sink's write position is cur_pos again.                         *)
(***************************************************************************)
C3_CompressedSizeMeasuredAfterFinish ==
    JustClosed =>
        LET e        == LastEntry
            cur_pos  == last.pos0 + (Len(outbuf) - last.len0)
            data_off == e.entry_offset + getLocalHeaderSize(e)
        IN  /\ codec.finished
            /\ codec.inbuf = << >>
            /\ e.compressed_size = cur_pos - data_off
            /\ e.compressed_size = Len(outbuf) - data_off
            /\ LocalCompressedSizeAt(e.entry_offset) = U32(e.compressed_size)
            /\ outpos = cur_pos

C3_Witness ==
    /\ JustClosed
    /\ Len(offered) = 2
    /\ LastEntry.compressed_size = Len(DeflateBlock(1, offered))
    /\ Len(_entries) = 2

(***************************************************************************)
(* C4.  With the method STORED every byte written between putNextEntry and *)
(* closeEntry reaches the sink verbatim, so that the payload is the bytes  *)
(* written and compressed_size is their number.                            *)
(***************************************************************************)
C4_StoredIsVerbatim ==
    (JustClosed /\ LastEntry.compress_method = STORED) =>
        LET e        == LastEntry
            data_off == e.entry_offset + getLocalHeaderSize(e)
        IN  /\ Slice(outbuf, data_off, Len(outbuf) - data_off) = offered
            /\ e.compressed_size = Len(offered)

(***************************************************************************)
(* C5.  The local header putNextEntry writes is a placeholder: its crc32,  *)
(* compressed_size and uncompressed_size are zero for every entry passed   *)
(* in.                                                                     *)
(***************************************************************************)
C5_PlaceholderIsZero ==
    last.op = "putNextEntry" =>
        /\ LocalCrcAt(LastEntry.entry_offset) = << 0, 0 >>
        /\ LocalCompressedSizeAt(LastEntry.entry_offset) = << 0, 0 >>
        /\ LocalUncompressedSizeAt(LastEntry.entry_offset) = << 0, 0 >>

(***************************************************************************)
(* C6.  putNextEntry closes an open entry before it starts the new one:    *)
(* the entry it found open is finished and back-patched with the size      *)
(* measured up to where the new header begins.  The new entry's offset is  *)
(* the sink position at which its local header begins, its method is the   *)
(* writer's current method, it is the one open entry, and the entries list *)
(* holds one record per putNextEntry call, in call order.                  *)
(***************************************************************************)
C6_PutNextEntry ==
    /\ [ i \in 1 .. Len(_entries) |-> _entries[i].filename ] = calls.put
    /\ last.op = "putNextEntry" =>
        LET e == LastEntry
        IN  /\ Len(_entries) = last.n0 + 1
            /\ _open_entry
            /\ ~ codec.finished \/ _method # DEFLATED
            /\ e.entry_offset = last.mark
            /\ e.entry_offset + getLocalHeaderSize(e) = outpos
            /\ Slice(outbuf, e.entry_offset, getLocalHeaderSize(e))
                 = LocalEntryBytes(e)
            /\ e.compress_method = _method
            /\ last.open_entry0 =>
                 LET prev == _entries[Len(_entries) - 1]
                 IN  /\ prev.compressed_size =
                            e.entry_offset - prev.entry_offset
                                           - getLocalHeaderSize(prev)
                     /\ Slice(outbuf, prev.entry_offset,
                              getLocalHeaderSize(prev)) = LocalEntryBytes(prev)

C6_Witness ==
    /\ last.op = "putNextEntry"
    /\ last.open_entry0
    /\ Len(_entries) = 2
    /\ _entries[1].compressed_size > 0
    /\ _entries[2].entry_offset > 0

FinishLayout ==
    JustFinished =>
        /\ ~ _open_entry
        /\ ~ _open
        /\ CDirRecordsAt(1, last.mark)
        /\ EocdOffset = last.mark + CDirBytesLen
        /\ EocdTotalCount = Len(calls.put)
        /\ EocdCDirOffset = last.mark
        /\ EocdCDirSize =
             SumSeq([ i \in 1 .. Len(_entries) |->
                        cdir_header_size(_entries[i]) + 2 ])
        /\ Slice(outbuf, EocdOffset + EocdFixedSize, Len(_zip_comment))
             = _zip_comment

(***************************************************************************)
(* C8.  Once finish or close has marked the archive closed, a further      *)
(* putNextEntry or byte write is rejected: it appends no byte to the sink  *)
(* and no record to the entries list.                                      *)
(***************************************************************************)
C8_ClosedArchiveRejects ==
    (last.op \in { "putNextEntry", "write" } /\ ~ last.open0) =>
        /\ last.ret = EOF
        /\ Len(outbuf) = last.len0
        /\ Len(_entries) = last.n0

(***************************************************************************)
(* C9.  In the archive the first finish leaves, the local headers and the  *)
(* recorded compressed sizes of the entries, the central directory and the *)
(* end-of-central-directory record add up to the bytes in the sink: the    *)
(* first local header starts the sink, every other one starts where the    *)
(* payload before it ends, the central records start where the last        *)
(* payload ends, and the end-of-central-directory record ends the sink.    *)
(***************************************************************************)
EntriesSize ==
    SumSeq([ i \in 1 .. Len(_entries) |->
               getLocalHeaderSize(_entries[i]) + _entries[i].compressed_size ])

C9_ArchiveSize ==
    (JustFinished /\ last.open0) =>
        /\ EntriesSize + CDirBytesLen + EocdFixedSize + Len(_zip_comment)
             = Len(outbuf)
        /\ \A i \in 1 .. Len(_entries) :
             /\ _entries[i].entry_offset =
                    IF i = 1 THEN 0
                    ELSE _entries[i - 1].entry_offset
                         + getLocalHeaderSize(_entries[i - 1])
                         + _entries[i - 1].compressed_size
             /\ Slice(outbuf, _entries[i].entry_offset, 4)
                    = zipWrite32(LocalSignature)
        /\ CDirRecordsAt(1, EntriesSize)
        /\ Slice(outbuf, EntriesSize + CDirBytesLen, 4)
             = zipWrite32(EocdSignature)

DaysFromCivil(y0, m, d) ==
    LET y   == IF m <= 2 THEN y0 - 1 ELSE y0
        era == y \div 400
        yoe == y - era * 400
        doy == (153 * (IF m > 2 THEN m - 3 ELSE m + 9) + 2) \div 5 + d - 1
        doe == yoe * 365 + yoe \div 4 - yoe \div 100 + doy
    IN  era * 146097 + doe - 719468

\* w is <<packed date, packed time>>.  A field out of its range gives the
\* canonical 1980-01-01 00:00:00; so does a year past 2037, which the
\* integers of the model cannot count the seconds of.
dos2unixtime(w) ==
    LET year  == w[1] \div 512 + 1980
        month == (w[1] \div 32) % 16
        day   == w[1] % 32
        hour  == w[2] \div 2048
        min   == (w[2] \div 32) % 64
        sec   == (w[2] % 32) * 2
    IN  IF \/ month < 1 \/ month > 12 \/ day < 1
           \/ hour > 23 \/ min > 59 \/ sec > 59 \/ year > 2037
          THEN DosEpoch
          ELSE DaysFromCivil(year, month, day) * 86400
               + hour * 3600 + min * 60 + sec

(***************************************************************************)
(* CentralEntry codec, read side: ZipCentralDirectoryEntry::read().        *)
(***************************************************************************)
\* An entry object with its m_valid flag.
WithValid(e, v) ==
    [ f \in DOMAIN e \cup { "valid" } |-> IF f = "valid" THEN v ELSE e[f] ]

\* A std::istream over a byte string: the bytes, the read position and
\* whether the stream is in the failed state.
IStream(bytes) == [ bytes |-> bytes, pos |-> 0, fail |-> FALSE ]

\* The bytes left to read.
InAvail(is) == IF is.fail THEN 0 ELSE Len(is.bytes) - is.pos

\* The fixed part of a record is 46 bytes: the signature and 42 more.
CDirFixedBytes == 46

\* ZipCentralDirectoryEntry::clone(): a new object, a copy of this one.
clone(e) == [ f \in DOMAIN e |-> e[f] ]

\* What read( is ) does after its first statement.  zipRead() throws when
\* the stream ends before the value does, and leaves the stream failed at
\* its end.  m_extract_version, m_gp_bitfield, m_crc_32, m_extra_field and
\* m_file_comment are read in place; the other members are assigned once
\* every field was read, and m_valid is set if the stream is still good.
readFields(e0, is) ==
    LET b     == is.bytes
        p     == is.pos
        n     == InAvail(is)
        short == [ is EXCEPT !.pos = Len(b), !.fail = TRUE ]
        e1    == IF n >= 8
                   THEN [ e0 EXCEPT !.extract_version = zipRead16(b, p + 6) ]
                   ELSE e0
        e2    == IF n >= 10
                   THEN [ e1 EXCEPT !.gp_bitfield = zipRead16(b, p + 8) ]
                   ELSE e1
        e3    == IF n >= 20
                   THEN [ e2 EXCEPT !.crc_32 = zipRead32(b, p + 16) ]
                   ELSE e2
    IN  IF n < 4
          THEN [ entry |-> e0, is |-> short, threw |-> TRUE ]
        ELSE IF zipRead32(b, p) # g_signature
          THEN [ entry |-> e0,
                 is    |-> [ is EXCEPT !.pos = p + 4, !.fail = TRUE ],
                 threw |-> TRUE ]
        ELSE IF n < CDirFixedBytes
          THEN [ entry |-> e3, is |-> short, threw |-> TRUE ]
        ELSE
          LET filename_len     == zipRead16(b, p + 28)
              extra_field_len  == zipRead16(b, p + 30)
              file_comment_len == zipRead16(b, p + 32)
              xoff == p + CDirFixedBytes + filename_len
              coff == xoff + extra_field_len
              e4   == IF n >= coff - p
                        THEN [ e3 EXCEPT !.extra_field =
                                           SubSeq(b, xoff + 1, coff) ]
                        ELSE e3
          IN  IF n < coff + file_comment_len - p
                THEN [ entry |-> e4, is |-> short, threw |-> TRUE ]
                ELSE [ entry |->
                         [ e4 EXCEPT
                             !.file_comment =
                                 SubSeq(b, coff + 1, coff + file_comment_len),
                             !.compress_method = zipRead16(b, p + 10),
                             !.unix_time =
                                 dos2unixtime(zipRead32(b, p + 12)),
                             !.compressed_size = W2N(zipRead32(b, p + 20)),
                             !.uncompressed_size = W2N(zipRead32(b, p + 24)),
                             !.entry_offset = W2N(zipRead32(b, p + 42)),
                             !.filename =
                                 SubSeq(b, p + CDirFixedBytes + 1, xoff),
                             !.valid = TRUE ],
                       is    |-> [ is EXCEPT !.pos = coff + file_comment_len ],
                       threw |-> FALSE ]

\* read() without its first statement: m_valid keeps its value until the
\* end.
read_KeepsValid(e, is) == readFields(e, is)

\* read( is ): the entry and the stream afterwards, and whether it threw.
read(e, is) == readFields([ e EXCEPT !.valid = FALSE ], is)

\* An output stream takes bytes at its end.
OPut(os, bytes) ==
    [ os EXCEPT !.bytes = os.bytes \o bytes,
                !.pos = Len(os.bytes) + Len(bytes) ]

\* write( os ) that emits the signature before it checks the sizes.
write_ChecksLate(e, os) ==
    IF CDirWriteThrows(e)
      THEN [ entry |-> e, os |-> OPut(os, zipWrite32(g_signature)),
             threw |-> TRUE ]
      ELSE [ entry |-> e, os |-> OPut(os, CDirEntryBytes(e)),
             threw |-> FALSE ]

\* write( os ): the entry and the stream afterwards, and whether it threw.
\* Both checks come before the first zipWrite().
write(e, os) ==
    IF CDirWriteThrows(e)
      THEN [ entry |-> e, os |-> os, threw |-> TRUE ]
      ELSE [ entry |-> e, os |-> OPut(os, CDirEntryBytes(e)),
             threw |-> FALSE ]

(***************************************************************************)
(* The codec on its own: an entry object, and calls of getHeaderSize(),    *)
(* write() and read() on it.                                               *)
(***************************************************************************)
\* A field of n bytes.
Field(n) == [ i \in 1 .. n |-> 97 ]

\* Entries with short fields.
ShortEntries ==
    { [ Entry(<< 97 >>, << >>, << >>, << 0, 0 >>, 0, 0, 0)
          EXCEPT !.compress_method = STORED ],
      [ Entry(<< 98, 99 >>, << 7 >>, << 35, 36 >>, << 4660, 22136 >>, 3, 5,
              1000000000)
          EXCEPT !.entry_offset = 31 ],
      [ Entry(<< 100, 47, 101 >>, << >>, << 33 >>, << 65535, 65534 >>,
              70000, 70001, 0)
          EXCEPT !.extract_version = 10, !.gp_bitfield = 2048,
                 !.entry_offset = Pow2_16 ] }

\* Entries with one field just below, at and just above 2^16 bytes.
LongEntries ==
    { Entry(<< 97 >>, Field(Pow2_16 - 1), << >>, << 0, 0 >>, 0, 0, 0),
      Entry(Field(Pow2_16), << >>, << >>, << 0, 0 >>, 0, 0, 0),
      Entry(<< 97 >>, << >>, Field(Pow2_16 + 1), << 0, 0 >>, 0, 0, 0) }

CodecEntries == ShortEntries \cup LongEntries

\* What read() is given: the record of an entry, the record cut short
\* inside or at the end of one of its fields, the record behind one byte
\* that is not part of it, and a record whose signature is another one's.
Records == { CDirEntryBytes(e) : e \in ShortEntries }

Cuts(r) == { 0, 3, 4, 7, 9, 19, 45, 46, Len(r) - 1, Len(r) }

ReadInputs ==
    UNION { { IStream(SubSeq(r, 1, k)) : k \in Cuts(r) } : r \in Records }
    \cup { [ IStream(<< 0 >> \o r) EXCEPT !.pos = 1 ] : r \in Records }
    \cup { IStream(zipWrite32(LocalSignature) \o SubSeq(r, 5, Len(r))) :
             r \in Records }

CodecInit ==
    /\ centry \in { WithValid(e, TRUE) : e \in CodecEntries }
    /\ cstream = IStream(<< >>)
    /\ cret = [ op |-> "new", threw |-> FALSE, size |-> 0, pos0 |-> 0,
                n |-> 0, from |-> << >> ]
    /\ outbuf = << >> /\ outpos = 0 /\ _entries = << >>
    /\ _open_entry = FALSE /\ _open = FALSE /\ _method = DEFLATED
    /\ _level = 6 /\ _zip_comment = << >> /\ codec = << >>
    /\ offered = << >> /\ calls = << >> /\ last = << >>
    /\ ReaderOff
    /\ DirOff

CGetHeaderSize ==
    /\ cret.n < MaxCodecCalls
    /\ cret' = [ op |-> "getHeaderSize", threw |-> FALSE,
                 size |-> getHeaderSize(centry), pos0 |-> 0,
                 n |-> cret.n + 1, from |-> << >> ]
    /\ UNCHANGED << centry, cstream, vars, rvars, dvars >>

\* setComment( comment ): the comment of the entry is replaced.
CSetComment ==
    \E comment \in { << >>, << 33, 33 >> } :
        /\ cret.n < MaxCodecCalls
        /\ centry' = [ centry EXCEPT !.file_comment = comment ]
        /\ cret' = [ op |-> "setComment", threw |-> FALSE, size |-> 0,
                     pos0 |-> 0, n |-> cret.n + 1, from |-> << >> ]
        /\ UNCHANGED << cstream, vars, rvars, dvars >>

\* write( os ) on a fresh output stream.
CWrite ==
    \E w \in { write(centry, IStream(<< >>)) } :
        /\ cret.n < MaxCodecCalls
        /\ centry' = w.entry
        /\ cstream' = w.os
        /\ cret' = [ op |-> "write", threw |-> w.threw, size |-> 0,
                     pos0 |-> 0, n |-> cret.n + 1, from |-> centry ]
        /\ UNCHANGED << vars, rvars, dvars >>

CRead ==
    \E is \in ReadInputs :
        LET r == read(centry, is)
        IN  /\ cret.n < MaxCodecCalls
            /\ centry' = r.entry
            /\ cstream' = r.is
            /\ cret' = [ op |-> "read", threw |-> r.threw, size |-> 0,
                         pos0 |-> is.pos, n |-> cret.n + 1,
                         from |-> << >> ]
            /\ UNCHANGED << vars, rvars, dvars >>

\* What write() emitted is read back from its start, into an entry object
\* that was default-constructed.
CReadBack ==
    \E r \in { read(WithValid(Entry(<< >>, << >>, << >>, << 0, 0 >>, 0, 0, 0),
                              FALSE),
                    [ cstream EXCEPT !.pos = 0 ]) } :
        /\ cret.n < MaxCodecCalls
        /\ cret.op = "write"
        /\ ~cret.threw
        /\ centry' = r.entry
        /\ cstream' = r.is
        /\ cret' = [ op |-> "readBack", threw |-> r.threw, size |-> 0,
                     pos0 |-> 0, n |-> cret.n + 1, from |-> cret.from ]
        /\ UNCHANGED << vars, rvars, dvars >>

\* A caller takes a copy of the entry and works on with it.
CClone ==
    /\ cret.n < MaxCodecCalls
    /\ centry' = clone(centry)
    /\ cret' = [ op |-> "clone", threw |-> FALSE, size |-> 0, pos0 |-> 0,
                 n |-> cret.n + 1, from |-> << >> ]
    /\ UNCHANGED << cstream, vars, rvars, dvars >>

CodecNext ==
    \/ CGetHeaderSize
    \/ CWrite
    \/ CRead
    \/ CReadBack
    \/ CClone
    \/ CSetComment

CodecSpec == CodecInit /\ [][CodecNext]_cvars

(***************************************************************************)
(* C11.  getHeaderSize() is 46 plus the lengths of the filename, the extra *)
(* field and the comment, which is the number of bytes write() emits for   *)
(* the entry; the padding of the header struct plays no part.              *)
(***************************************************************************)
C11_HeaderSizeIsBytesWritten ==
    cret.op = "getHeaderSize" =>
        /\ cret.size = cdir_header_size(centry)
        /\ ~CDirWriteThrows(centry) =>
               cret.size = Len(CDirEntryBytes(centry))

(***************************************************************************)
(* C12.  write() throws whenever the filename, the extra field or the      *)
(* comment is longer than 65535 bytes or a size or the offset is 2^32 or   *)
(* more; so each 16-bit length that is written is the length of the field  *)
(* that follows it.                                                        *)
(***************************************************************************)
OverCaps(e) ==
    \/ Len(e.filename) > Pow2_16 - 1
    \/ Len(e.extra_field) > Pow2_16 - 1
    \/ Len(e.file_comment) > Pow2_16 - 1
    \/ e.compressed_size \div Pow2_16 >= Pow2_16
    \/ e.uncompressed_size \div Pow2_16 >= Pow2_16
    \/ e.entry_offset \div Pow2_16 >= Pow2_16

C12_WriteSizeCaps ==
    cret.op = "write" =>
        /\ OverCaps(centry) => cret.threw
        /\ ~cret.threw =>
              /\ zipRead16(cstream.bytes, 28) = Len(centry.filename)
              /\ zipRead16(cstream.bytes, 30) = Len(centry.extra_field)
              /\ zipRead16(cstream.bytes, 32) = Len(centry.file_comment)

(***************************************************************************)
(* C13.  After read(), valid is true only if the signature read was        *)
(* 0x02014B50 and the stream held every field, fixed and variable, and     *)
(* did not fail; when the signature is another one, the stream is failed,  *)
(* the call threw and valid is false.                                      *)
(***************************************************************************)
\* The stream of the last read() held a whole record at the position the
\* call started from.
HeldSignature ==
    /\ Len(cstream.bytes) - cret.pos0 >= 4
    /\ zipRead32(cstream.bytes, cret.pos0) = g_signature

HeldRecord ==
    /\ Len(cstream.bytes) - cret.pos0 >= CDirFixedBytes
    /\ Len(cstream.bytes) - cret.pos0 >=
           CDirFixedBytes + zipRead16(cstream.bytes, cret.pos0 + 28)
           + zipRead16(cstream.bytes, cret.pos0 + 30)
           + zipRead16(cstream.bytes, cret.pos0 + 32)

C13_ReadValidity ==
    cret.op = "read" =>
        /\ centry.valid => HeldSignature /\ HeldRecord /\ ~cstream.fail
                           /\ ~cret.threw
        /\ (Len(cstream.bytes) - cret.pos0 >= 4 /\ ~HeldSignature) =>
               cstream.fail /\ cret.threw /\ ~centry.valid

\* A read() of a record with another signature, and one of a record cut
\* short in its variable part.
C13_Witness ==
    /\ cret.op = "read"
    /\ Len(cstream.bytes) - cret.pos0 >= CDirFixedBytes
    /\ ~HeldSignature
    /\ cret.threw
    /\ ~centry.valid


(***************************************************************************)
(* LocalEntry codec, read side: is >> entry.                               *)
(***************************************************************************)
\* Bit 3 of gp_bitfield: the sizes follow the payload in a data descriptor.
trailingDataDescriptor(e) == (e.gp_bitfield \div 8) % 2 = 1

\* A ZipLocalEntry as its default constructor leaves it.
LocalEntryNew == WithValid(Entry(<< >>, << >>, << >>, << 0, 0 >>, 0, 0, 0), FALSE)

\* Read a local header from bytes at position pos into entry e: the entry,
\* the position afterwards, and whether a whole header with the right
\* signature was there.  The entry is valid if, besides, its filename is not
\* empty.  A trailing data descriptor or a method that is neither STORED nor
\* DEFLATED does not make it invalid: getNextEntry() tests both on an entry
\* that is valid.
readLocal(e, bytes, pos) ==
    LET n    == Max(0, Len(bytes) - pos)
        e0   == [ e EXCEPT !.valid = FALSE ]
        stop == Max(pos, Len(bytes))
    IN  IF n < 4
          THEN [ entry |-> e0, pos |-> stop, parsed |-> FALSE ]
        ELSE IF zipRead32(bytes, pos) # LocalSignature
          THEN [ entry |-> e0, pos |-> pos + 4, parsed |-> FALSE ]
        ELSE IF n < LocalFixedSize
          THEN [ entry |-> e0, pos |-> stop, parsed |-> FALSE ]
        ELSE
          LET filename_len    == zipRead16(bytes, pos + 26)
              extra_field_len == zipRead16(bytes, pos + 28)
              xoff == pos + LocalFixedSize + filename_len
              e1   == [ e0 EXCEPT
                          !.extract_version = zipRead16(bytes, pos + 4),
                          !.gp_bitfield = zipRead16(bytes, pos + 6),
                          !.compress_method = zipRead16(bytes, pos + 8),
                          !.unix_time =
                              dos2unixtime(zipRead32(bytes, pos + 10)),
                          !.crc_32 = zipRead32(bytes, pos + 14),
                          !.compressed_size =
                              W2N(zipRead32(bytes, pos + 18)),
                          !.uncompressed_size =
                              W2N(zipRead32(bytes, pos + 22)),
                          !.filename =
                              SubSeq(bytes, pos + LocalFixedSize + 1, xoff),
                          !.extra_field =
                              SubSeq(bytes, xoff + 1, xoff + extra_field_len) ]
          IN  IF n < LocalFixedSize + filename_len + extra_field_len
                THEN [ entry |-> e0, pos |-> stop, parsed |-> FALSE ]
                ELSE [ entry |->
                         [ e1 EXCEPT !.valid = filename_len > 0 ],
                       pos    |-> xoff + extra_field_len,
                       parsed |-> TRUE ]

(***************************************************************************)
(* The lower source and the get area of the reader.                        *)
(***************************************************************************)
Min(a, b) == IF a <= b THEN a ELSE b

\* _inbuf->sgetn( buf, n ): the bytes read, at most n.
sgetn(st, n) == SubSeq(st.src, st.pos + 1, Min(Len(st.src), st.pos + n))

\* setg( outvec, outvec + size, outvec + size ): nothing left to get, so
\* that the next read calls underflow().
Drained == [ buf |-> << >>, g |-> 0 ]

\* The bytes of the get area that were not consumed.
InGetArea(ga) == SubSeq(ga.buf, ga.g + 1, Len(ga.buf))

(***************************************************************************)
(* InflateInputBuf: the decompression stage.  The decoder is the one of    *)
(* the stored blocks DeflateBlock makes.                                   *)
(***************************************************************************)
\* reset(): a fresh decoder at the current position of the lower source,
\* with nothing staged and nothing left to get.
InflateNew ==
    [ staged |-> << >>, hdr |-> << >>, left |-> 0, final |-> FALSE,
      ended |-> FALSE ]

\* The decoder takes one byte: a byte of a block header, or a byte of data,
\* which it puts out.
InflateByte(z, out) ==
    LET c    == Head(z.staged)
        rest == Tail(z.staged)
    IN  IF z.left > 0
          THEN [ z   |-> [ z EXCEPT !.staged = rest, !.left = z.left - 1,
                                    !.ended = (z.left = 1 /\ z.final) ],
                 out |-> Append(out, c) ]
        ELSE IF Len(z.hdr) < 4
          THEN [ z   |-> [ z EXCEPT !.staged = rest,
                                    !.hdr = Append(z.hdr, c) ],
                 out |-> out ]
        ELSE LET len == z.hdr[2] + Pow2_8 * z.hdr[3]
             IN  [ z   |-> [ z EXCEPT !.staged = rest, !.hdr = << >>,
                                      !.left = len,
                                      !.final = (z.hdr[1] = 1),
                                      !.ended = (len = 0 /\ z.hdr[1] = 1) ],
                   out |-> out ]

\* inflate(): take staged bytes until the stream ends, the staged bytes run
\* out or the output buffer is full.
RECURSIVE inflate(_, _, _)
inflate(z, out, room) ==
    IF z.ended \/ z.staged = << >> \/ (z.left > 0 /\ Len(out) = room)
      THEN [ z |-> z, out |-> out ]
      ELSE LET r == InflateByte(z, out) IN inflate(r.z, r.out, room)

\* InflateInputStreambuf::underflow(): stage compressed bytes and decode
\* until there is a byte to hand out or the stream has ended; at the end of
\* the stream the lower source is left at the first byte past it.
RECURSIVE InflateFill(_, _, _, _)
InflateFill(st, out, invecsize, outvecsize) ==
    IF st.zs.ended \/ Len(out) > 0
      THEN [ st EXCEPT
               !.garea = [ buf |-> out, g |-> 0 ],
               !.pos = IF st.zs.ended THEN st.pos - Len(st.zs.staged)
                       ELSE st.pos,
               !.zs = IF st.zs.ended THEN [ st.zs EXCEPT !.staged = << >> ]
                      ELSE st.zs,
               !.ret = IF Len(out) > 0 THEN Head(out) ELSE EOF ]
    ELSE IF st.zs.staged = << >> /\ sgetn(st, invecsize) = << >>
      THEN [ st EXCEPT !.garea = Drained, !.ret = EOF ]
    ELSE
      LET chunk == IF st.zs.staged = << >> THEN sgetn(st, invecsize)
                   ELSE << >>
          r     == inflate([ st.zs EXCEPT !.staged = st.zs.staged \o chunk ],
                           out, outvecsize)
      IN  InflateFill([ st EXCEPT !.pos = st.pos + Len(chunk), !.zs = r.z ],
                      r.out, invecsize, outvecsize)


(***************************************************************************)
(* ZipInputBuf: ZipInputStreambuf.  st is the reader's state as a record:  *)
(* src, pos, heap, open, data_start, remain, garea, zs, and ret, what the  *)
(* call returned.                                                          *)
(***************************************************************************)
\* closeEntry() that leaves the lower source where it is.
closeEntryIn_NoSeek(st) == st

\* closeEntry()
closeEntryIn(st) ==
    IF ~st.open THEN st
    ELSE LET position == st.pos
             target   == st.data_start + st.heap[1].compressed_size
         IN  IF position # target THEN [ st EXCEPT !.pos = target ] ELSE st

\* getNextEntry() that hands out m_curr_entry itself.
getNextEntry_NoCopy(st) ==
    LET s1 == IF st.open THEN closeEntryIn(st) ELSE st
        r  == readLocal(s1.heap[1], s1.src, s1.pos)
        s2 == [ s1 EXCEPT !.heap[1] = r.entry, !.pos = r.pos ]
        s3 == IF r.entry.valid
                THEN [ s2 EXCEPT !.data_start = r.pos, !.open = TRUE,
                                 !.remain = r.entry.uncompressed_size,
                                 !.garea = Drained, !.zs = InflateNew ]
                ELSE [ s2 EXCEPT !.open = FALSE ]
    IN  [ s3 EXCEPT !.ret = 1 ]

\* getNextEntry(): ret is the pointer to the entry returned, a new object.
getNextEntry(st) ==
    LET s1 == IF st.open THEN closeEntryIn(st) ELSE st
        r  == readLocal(s1.heap[1], s1.src, s1.pos)
        s2 == [ s1 EXCEPT !.heap[1] = r.entry, !.pos = r.pos ]
        s3 == IF r.entry.valid
                THEN LET s == [ s2 EXCEPT !.data_start = r.pos ]
                     IN  IF r.entry.compress_method = DEFLATED
                           THEN [ s EXCEPT !.open = TRUE,
                                           !.zs = InflateNew,
                                           !.garea = Drained ]
                         ELSE IF r.entry.compress_method = STORED
                           THEN [ s EXCEPT !.open = TRUE,
                                           !.remain =
                                               r.entry.uncompressed_size,
                                           !.garea = Drained ]
                         ELSE [ s EXCEPT !.open = FALSE ]
                ELSE [ s2 EXCEPT !.open = FALSE ]
    IN  [ s3 EXCEPT !.heap = Append(s3.heap, clone(s3.heap[1])),
                    !.ret = Len(s3.heap) + 1 ]

\* return *gptr(): the char at the head of the get area becomes an int.
\* char is signed in this build, so a byte of 128 or more comes out
\* negative, and 255 comes out as EOF.
CharToInt(b) == IF b >= Pow2_8 \div 2 THEN b - Pow2_8 ELSE b

\* underflow() of a STORED entry that asks for a full buffer.
underflowStored_NoRemain(st) ==
    LET got == sgetn(st, OutvecSize)
    IN  [ st EXCEPT !.garea = [ buf |-> got, g |-> 0 ],
                    !.pos = st.pos + Len(got),
                    !.remain = st.remain - Len(got),
                    !.ret = IF Len(got) > 0 THEN CharToInt(Head(got))
                           ELSE EOF ]

\* The STORED branch of underflow().
underflowStored(st) ==
    LET num_b == Min(st.remain, OutvecSize)
        got   == sgetn(st, num_b)
        g     == Len(got)
    IN  [ st EXCEPT !.garea = [ buf |-> got, g |-> 0 ],
                    !.pos = st.pos + g,
                    !.remain = st.remain - g,
                    !.ret = IF g > 0 THEN CharToInt(Head(got)) ELSE EOF ]

\* underflow(): ret is the byte at the head of the get area as the branch
\* taken converts it, or EOF.
underflowIn(st) ==
    IF ~st.open THEN [ st EXCEPT !.ret = EOF ]
    ELSE IF st.heap[1].compress_method = DEFLATED
      THEN InflateFill(st, << >>, InvecSize, OutvecSize)
    ELSE underflowStored(st)


(***************************************************************************)
(* The reader over an archive, and its consumer.                           *)
(***************************************************************************)
RCur ==
    [ src |-> src, pos |-> srcpos, heap |-> heap, open |-> m_open_entry,
      data_start |-> m_data_start, remain |-> m_remain, garea |-> garea,
      zs |-> zs, ret |-> 0 ]

RBecomes(st) ==
    /\ src' = st.src
    /\ srcpos' = st.pos
    /\ heap' = st.heap
    /\ m_open_entry' = st.open
    /\ m_data_start' = st.data_start
    /\ m_remain' = st.remain
    /\ garea' = st.garea
    /\ zs' = st.zs

\* A reader as the base class constructors leave it, at the start of src.
ReaderNew(bytes) ==
    [ src |-> bytes, pos |-> 0, heap |-> << LocalEntryNew >>,
      open |-> FALSE, data_start |-> 0, remain |-> 0, garea |-> Drained,
      zs |-> InflateNew, ret |-> 0 ]

\* A local header and the bytes that follow it in an archive.
Member(name, method, gp, crc, csize, usize, payload) ==
    LocalEntryBytes([ Entry(name, << >>, << >>, crc, csize, usize,
                            1000000000)
                        EXCEPT !.compress_method = method,
                               !.gp_bitfield = gp ])
    \o payload

\* Each with the CRC-32 of its data.
Stored3 ==
    Member(<< 97 >>, STORED, 0, << 6292, 51492 >>, 3, 3, << 10, 11, 12 >>)

Deflated3 ==
    Member(<< 98 >>, DEFLATED, 0, << 9999, 33275 >>,
           Len(DeflateBlock(1, << 20, 21, 22 >>)), 3,
           DeflateBlock(1, << 20, 21, 22 >>))

\* An entry compressed with a method that is neither STORED nor DEFLATED.
Unknown2 ==
    Member(<< 117 >>, 12, 0, << 6288, 8405 >>, 2, 2, << 30, 31 >>)

\* An entry whose sizes follow its payload: bit 3 is set, the sizes in the
\* header are zero, and a 16-byte data descriptor follows the payload.
Described1 ==
    Member(<< 100 >>, DEFLATED, 8, << 0, 0 >>, 0, 0,
           DeflateBlock(1, << 40 >>)
           \o zipWrite32(<< 2055, 19280 >>) \o zipWrite32(<< 59319, 18295 >>)
           \o zipWrite32(U32(Len(DeflateBlock(1, << 40 >>))))
           \o zipWrite32(U32(1)))

\* What follows the last entry: the central directory.
CDirStart ==
    CDirEntryBytes(Entry(<< 97 >>, << >>, << >>, << 0, 0 >>, 3, 3,
                         1000000000))

\* The sources read: the sixth is a STORED entry with bytes of 128 and more,
\* 255 the first; the last begins with what is not a local header.
Archives ==
    { Stored3 \o Deflated3 \o CDirStart,
      Deflated3 \o Stored3 \o CDirStart,
      Unknown2 \o Stored3 \o CDirStart,
      Stored3 \o Described1 \o Stored3 \o CDirStart,
      Deflated3 \o Stored3 \o Deflated3 \o CDirStart,
      Member(<< 104 >>, STORED, 0, << 22158, 34389 >>, 3, 3,
             << 255, 10, 128 >>)
      \o CDirStart,
      CDirStart }

\* What the history keeps of the entry that is current.
Current ==
    [ at     |-> rhist.at,
      hsize  |-> getLocalHeaderSize(heap[1]),
      csize  |-> heap[1].compressed_size,
      method |-> heap[1].compress_method,
      parsed |-> rhist.parsed,
      open   |-> m_open_entry,
      closed |-> rhist.closed ]

Cursor == << m_data_start, m_remain, heap[1], m_open_entry >>

\* The history of a call that is not getNextEntry().
RCall(op, ret) ==
    [ rhist EXCEPT !.op = op, !.ret = ret, !.n = rhist.n + 1,
                   !.pos0 = srcpos, !.remain0 = m_remain,
                   !.first = FALSE, !.cursor0 = << >> ]

\* A constructor that reads no header: the entry it would hand back is
\* the empty one.
ZipInputStreambuf_NoRead(bytes) ==
    [ ReaderNew(bytes) EXCEPT
        !.heap = << LocalEntryNew, clone(LocalEntryNew) >>, !.ret = 2 ]

\* ZipInputStreambuf( inbuf, s_pos ): the base class is set up, then
\* getNextEntry() is called, and an invalid first entry raises nothing.
ZipInputStreambuf(bytes) == getNextEntry(ReaderNew(bytes))

\* The state after the constructor.
ReaderInit ==
    \E a \in Archives :
        \E st \in { ZipInputStreambuf(a) } :
            /\ src = st.src
            /\ srcpos = st.pos
            /\ heap = st.heap
            /\ m_open_entry = st.open
            /\ m_data_start = st.data_start
            /\ m_remain = st.remain
            /\ garea = st.garea
            /\ zs = st.zs
            /\ rhist = [ op |-> "getNextEntry", ret |-> st.ret, n |-> 0,
                         at |-> 0,
                         parsed |-> readLocal(LocalEntryNew, a, 0).parsed,
                         prev |-> [ at |-> 0, hsize |-> 0, csize |-> 0,
                                    method |-> 0, parsed |-> FALSE,
                                    open |-> FALSE, closed |-> FALSE ],
                         closed |-> FALSE, pos0 |-> 0, remain0 |-> 0,
                         pending |-> TRUE, first |-> FALSE,
                         returned |-> << st.ret >>,
                         snap |-> << st.heap[st.ret] >>,
                         cursor0 |-> << >> ]
            /\ outbuf = << >> /\ outpos = 0 /\ _entries = << >>
            /\ _open_entry = FALSE /\ _open = FALSE /\ _method = DEFLATED
            /\ _level = 6 /\ _zip_comment = << >> /\ codec = << >>
            /\ offered = << >> /\ calls = << >> /\ last = << >>
            /\ CodecOff
            /\ DirOff
        
RGetNextEntry ==
    \E st \in { getNextEntry(RCur) },
       s1 \in { IF m_open_entry THEN closeEntryIn(RCur) ELSE RCur } :
        /\ rhist.n < MaxReaderCalls
        /\ RBecomes(st)
        /\ rhist' = [ op |-> "getNextEntry", ret |-> st.ret,
                      n |-> rhist.n + 1,
                      at |-> s1.pos,
                      parsed |-> readLocal(heap[1], src, s1.pos).parsed,
                      prev |-> Current,
                      closed |-> FALSE, pos0 |-> srcpos,
                      remain0 |-> m_remain,
                      pending |-> TRUE, first |-> FALSE,
                      returned |-> Append(rhist.returned, st.ret),
                      snap |-> Append(rhist.snap, st.heap[st.ret]),
                      cursor0 |-> << >> ]
        /\ UNCHANGED << vars, cvars, dvars >>

RCloseEntry ==
    /\ rhist.n < MaxReaderCalls
    /\ RBecomes(closeEntryIn(RCur))
    /\ rhist' = [ RCall("closeEntry", 0)
                    EXCEPT !.closed = rhist.closed \/ m_open_entry ]
    /\ UNCHANGED << vars, cvars, dvars >>

\* close() does nothing.
RClose ==
    /\ rhist.n < MaxReaderCalls
    /\ rhist' = RCall("close", 0)
    /\ UNCHANGED << vars, cvars, dvars, src, srcpos, heap, m_open_entry,
                    m_data_start, m_remain, garea, zs >>

\* The consumer asks for a byte and the get area has none: underflow().
RUnderflow ==
    \E st \in { underflowIn(RCur) } :
        /\ rhist.n < MaxReaderCalls
        /\ InGetArea(garea) = << >>
        /\ RBecomes(st)
        /\ rhist' = [ RCall("underflow", st.ret)
                        EXCEPT !.first = rhist.pending, !.pending = FALSE ]
        /\ UNCHANGED << vars, cvars, dvars >>

\* The consumer takes the next byte of the get area.
RSbumpc ==
    /\ rhist.n < MaxReaderCalls
    /\ InGetArea(garea) # << >>
    /\ garea' = [ garea EXCEPT !.g = garea.g + 1 ]
    /\ rhist' = [ RCall("sbumpc", Head(InGetArea(garea)))
                    EXCEPT !.first = rhist.pending, !.pending = FALSE ]
    /\ UNCHANGED << vars, cvars, dvars, src, srcpos, heap, m_open_entry,
                    m_data_start, m_remain, zs >>

\* The consumer changes the entry it was returned last.
RMutate ==
    LET i == Len(rhist.returned)
        p == rhist.returned[i]
        e == [ heap[p] EXCEPT !.compressed_size = 0,
                              !.compress_method = STORED ]
    IN  /\ rhist.n < MaxReaderCalls
        /\ heap' = [ heap EXCEPT ![p] = e ]
        /\ rhist' = [ RCall("mutate", 0)
                        EXCEPT !.snap[i] = e, !.cursor0 = Cursor ]
        /\ UNCHANGED << vars, cvars, dvars, src, srcpos, m_open_entry,
                        m_data_start, m_remain, garea, zs >>

ReaderNext ==
    \/ RGetNextEntry
    \/ RCloseEntry
    \/ RClose
    \/ RUnderflow
    \/ RSbumpc
    \/ RMutate

ReaderSpec == ReaderInit /\ [][ReaderNext]_rvars


(***************************************************************************)
(* What the claims about the reader speak of.                              *)
(***************************************************************************)
\* An entry is open and the consumer has not closed it.
OpenAndNotClosed == m_open_entry /\ ~rhist.closed

\* Where the payload of the current entry ends in the lower source.
PayloadEnd == m_data_start + heap[1].compressed_size

\* The first byte of the payload of the current entry, as the consumer is
\* to see it: for a DEFLATED entry the first byte of data of its first block.
FirstPayloadByte ==
    IF heap[1].compress_method = STORED THEN src[m_data_start + 1]
    ELSE src[m_data_start + Len(DeflateBlock(1, << >>)) + 1]

(***************************************************************************)
(* C14.  closeEntry() on an open entry leaves the lower source at          *)
(* data_start + compressed_size and the buffer idle: an underflow() after  *)
(* it and before the next getNextEntry() returns EOF and takes no byte     *)
(* from the lower source.                                                  *)
(***************************************************************************)
C14_CloseEntryGoesIdle ==
    /\ (rhist.op = "closeEntry" /\ m_open_entry) => srcpos = PayloadEnd
    /\ (rhist.op = "underflow" /\ rhist.closed) =>
           rhist.ret = EOF /\ srcpos = rhist.pos0

(***************************************************************************)
(* C15.  Whatever the consumer read of an open entry E, the next           *)
(* getNextEntry() starts to read its local header at E.entry_offset +      *)
(* E.local_header_size + E.compressed_size.                                *)
(***************************************************************************)
C15_ForwardIteration ==
    (rhist.op = "getNextEntry" /\ rhist.prev.open) =>
        rhist.at = rhist.prev.at + rhist.prev.hsize + rhist.prev.csize

\* A getNextEntry() that found the lower source past the end of the payload
\* of an open DEFLATED entry, of which the consumer had read a part: the
\* compressed bytes had been staged beyond that end.
C15_Witness ==
    /\ rhist.op = "getNextEntry"
    /\ rhist.prev.open
    /\ ~rhist.prev.closed
    /\ rhist.prev.method = DEFLATED
    /\ rhist.pos0 > rhist.at
    /\ rhist.parsed

(***************************************************************************)
(* C16.  A local header with a method that is neither STORED nor DEFLATED  *)
(* leaves the buffer idle and the entry returned invalid, and the          *)
(* getNextEntry() after it reads the next local header from just past the  *)
(* payload of that entry.                                                  *)
(***************************************************************************)
C16_UnknownMethodIsSkipped ==
    /\ (rhist.op = "getNextEntry" /\ rhist.parsed
          /\ heap[1].compress_method \notin { STORED, DEFLATED }) =>
           ~m_open_entry /\ ~heap[rhist.ret].valid
    /\ (rhist.op = "getNextEntry" /\ rhist.prev.parsed
          /\ rhist.prev.method \notin { STORED, DEFLATED }) =>
           /\ rhist.at = rhist.prev.at + rhist.prev.hsize + rhist.prev.csize
           /\ rhist.parsed

(***************************************************************************)
(* C17.  A local header with bit 3 of gp_bitfield set is rejected: the     *)
(* buffer is idle, the entry returned is invalid and no underflow() hands  *)
(* out a byte of its payload.                                              *)
(***************************************************************************)
C17_DataDescriptorRejected ==
    (rhist.parsed /\ trailingDataDescriptor(heap[1])) =>
        /\ ~m_open_entry
        /\ rhist.op = "getNextEntry" => ~heap[rhist.ret].valid
        /\ rhist.op = "underflow" =>
               rhist.ret = EOF /\ srcpos = rhist.pos0

(***************************************************************************)
(* C18.  While a STORED entry is open, an underflow() reads at most        *)
(* min(remain, buffer size) bytes from the lower source, as they are, and  *)
(* takes their number off remain; remain is never negative; once remain    *)
(* is 0, underflow() returns EOF; no byte from beyond the payload is       *)
(* handed out.                                                             *)
(***************************************************************************)
C18_StoredReads ==
    /\ m_remain >= 0
    /\ (OpenAndNotClosed /\ heap[1].compress_method = STORED) =>
          /\ srcpos >= m_data_start
          /\ srcpos <= m_data_start + heap[1].uncompressed_size
          /\ m_remain <= heap[1].uncompressed_size
          /\ rhist.op = "underflow" =>
                /\ Len(garea.buf) <= Min(rhist.remain0, OutvecSize)
                /\ m_remain = rhist.remain0 - Len(garea.buf)
                /\ srcpos = rhist.pos0 + Len(garea.buf)
                /\ garea.buf = Slice(src, rhist.pos0, Len(garea.buf))
                /\ rhist.remain0 = 0 => rhist.ret = EOF

\* An underflow() that was left less than a buffer to read, and the one
\* after the last byte.
C18_Witness ==
    /\ OpenAndNotClosed
    /\ heap[1].compress_method = STORED
    /\ rhist.op = "underflow"
    /\ rhist.remain0 > 0
    /\ rhist.remain0 < OutvecSize
    /\ m_remain = 0

(***************************************************************************)
(* C19.  After getNextEntry() no byte of an earlier entry is left to get,  *)
(* whatever the state it ends in, and the first byte the consumer is given *)
(* is the first byte of the payload of the entry returned.                 *)
(***************************************************************************)
C19_PayloadOrdering ==
    /\ rhist.op = "getNextEntry" => InGetArea(garea) = << >>
    /\ (rhist.first /\ OpenAndNotClosed /\ rhist.ret # EOF) =>
           rhist.ret = FirstPayloadByte

(***************************************************************************)
(* C20.  The entry getNextEntry() returns is a copy: no call on the        *)
(* buffer changes an entry returned before, and a change the consumer      *)
(* makes to a returned entry leaves the cursor (data_start, remain, the    *)
(* current entry, open or not) as it was.                                  *)
(***************************************************************************)
C20_EntryIsolation ==
    /\ \A i \in 1 .. Len(rhist.returned) :
           heap[rhist.returned[i]] = rhist.snap[i]
    /\ rhist.op = "mutate" => Cursor = rhist.cursor0

\* The consumer changed an entry, and the buffer went on to the next one.
C20_Witness ==
    /\ rhist.op = "getNextEntry"
    /\ Len(rhist.returned) >= 3
    /\ \E i \in 1 .. Len(rhist.returned) - 1 :
           /\ rhist.snap[i].compress_method = STORED
           /\ rhist.snap[i].compressed_size = 0
           /\ rhist.snap[i].uncompressed_size > 0

(***************************************************************************)
(* C24.  A finish() (or a close(), or the destructor, which are the same   *)
(* call) made after the archive was finished appends no byte to the lower  *)
(* sink: the central directory and the end-of-central-directory record    *)
(* are written once.                                                       *)
(***************************************************************************)
C24_FinishIsIdempotent ==
    (last.op = "finish" /\ ~ last.open0) => Len(outbuf) = last.len0

(***************************************************************************)
(* C25.  A byte written while no entry is open is rejected: overflow       *)
(* returns EOF, the sink keeps its length and its position, and the        *)
(* compression stage holds no byte that a later flush could emit.          *)
(***************************************************************************)
C25_IdleWritesRejected ==
    (last.op = "write" /\ ~ last.open_entry0) =>
        /\ last.ret = EOF
        /\ Len(outbuf) = last.len0
        /\ outpos = last.pos0
        /\ codec.inbuf = << >>

(***************************************************************************)
(* The local headers of a source, found by walking it from the start:      *)
(* each header is followed by compressed_size bytes of payload.            *)
(***************************************************************************)
RECURSIVE NthHeader(_, _, _)
NthHeader(bytes, pos, i) ==
    IF i = 1 THEN pos
    ELSE LET r == readLocal(LocalEntryNew, bytes, pos)
         IN  NthHeader(bytes, r.pos + r.entry.compressed_size, i - 1)

NthEntry(bytes, i) == readLocal(LocalEntryNew, bytes, NthHeader(bytes, 0, i))

\* The number of getNextEntry() calls the consumer made.
ExplicitCalls == Len(rhist.returned) - 1

(***************************************************************************)
\* The i-th local header of the source is a valid header of a STORED or
\* DEFLATED entry.
NthOpens(i) ==
    /\ NthEntry(src, i).entry.valid
    /\ NthEntry(src, i).entry.compress_method \in { STORED, DEFLATED }

FirstOpens == NthOpens(1)

(* C26.  The constructor reads the first local header at the start of the  *)
(* source.  Just after construction the entry read is the first entry of  *)
(* the source; if it is valid it is open, its payload starts right after   *)
(* its header and the first underflow() yields the first byte of its       *)
(* payload; if it is not valid the buffer is idle.  Here valid is: a       *)
(* valid header of a STORED or DEFLATED entry.  Over a source whose first  *)
(* k entries are such, the k-th getNextEntry() of the consumer reads the   *)
(* (k+1)-th header of the source and returns that entry.                   *)
(***************************************************************************)
C26_ConstructionReadsFirst ==
    /\ rhist.n = 0 =>
           /\ rhist.at = 0
           /\ heap[rhist.ret] = NthEntry(src, 1).entry
           /\ m_open_entry = FirstOpens
           /\ m_open_entry =>
                  /\ heap[1] = NthEntry(src, 1).entry
                  /\ m_data_start = NthEntry(src, 1).pos
    /\ (rhist.op = "underflow" /\ rhist.first /\ ExplicitCalls = 0
          /\ ~rhist.closed /\ FirstOpens) =>
           rhist.ret = FirstPayloadByte
    /\ (rhist.op = "getNextEntry" /\ ExplicitCalls > 0
          /\ \A i \in 1 .. ExplicitCalls : NthOpens(i)) =>
           /\ rhist.at = NthHeader(src, 0, ExplicitCalls + 1)
           /\ NthEntry(src, ExplicitCalls + 1).parsed =>
                  heap[rhist.ret] = NthEntry(src, ExplicitCalls + 1).entry

\* The second getNextEntry() of the consumer returned the third entry of a
\* source of three valid entries, the first of which was read by the
\* constructor.
C26_Witness ==
    /\ rhist.op = "getNextEntry"
    /\ ExplicitCalls = 2
    /\ \A i \in 1 .. 3 : NthEntry(src, i).entry.valid
    /\ heap[rhist.ret] = NthEntry(src, 3).entry
    /\ heap[rhist.ret].filename = << 98 >>
    /\ m_open_entry

(***************************************************************************)
(* C29.  When write() throws for a field, a size or an offset that is too  *)
(* large, the output stream holds no byte of the entry and the entry is    *)
(* what it was before the call.                                            *)
(***************************************************************************)
C29_WriteRejectsAtomically ==
    (cret.op = "write" /\ cret.threw) =>
        /\ cstream.bytes = << >>
        /\ centry = cret.from

\* A write() that threw for a comment of more than 2^16 bytes.
C29_Witness ==
    /\ cret.op = "write"
    /\ cret.threw
    /\ Len(cret.from.file_comment) > Pow2_16

(***************************************************************************)
(* C30.  For an entry within the size caps, read() of the bytes write()    *)
(* emitted takes exactly those bytes, leaves the entry valid and gives     *)
(* back filename, extra field, comment, method, both sizes, CRC, general   *)
(* purpose bits, extract version and entry offset as they were; in the     *)
(* record disk_num_start and intern_file_attr are 0 and extern_file_attr   *)
(* is 0x81B40000.                                                          *)
(***************************************************************************)
RoundTripFields ==
    { "filename", "extra_field", "file_comment", "compress_method",
      "compressed_size", "uncompressed_size", "crc_32", "gp_bitfield",
      "extract_version", "entry_offset" }

C30_WriteReadRoundTrip ==
    (cret.op = "readBack" /\ ~OverCaps(cret.from)) =>
        /\ ~cret.threw
        /\ ~cstream.fail
        /\ cstream.pos = Len(cstream.bytes)
        /\ centry.valid
        /\ \A f \in RoundTripFields : centry[f] = cret.from[f]
        /\ zipRead16(cstream.bytes, 34) = 0
        /\ zipRead16(cstream.bytes, 36) = 0
        /\ zipRead32(cstream.bytes, 38) = << 33204, 0 >>

\* An entry whose sizes and offset do not fit 16 bits, with a comment, read
\* back; and one whose extra field has the greatest length there is.
C30_Witness ==
    /\ cret.op = "readBack"
    /\ ~OverCaps(cret.from)
    /\ \/ /\ cret.from.compressed_size > Pow2_16
          /\ cret.from.compressed_size # cret.from.uncompressed_size
          /\ cret.from.file_comment # << >>
          /\ centry.entry_offset = Pow2_16
       \/ Len(centry.extra_field) = Pow2_16 - 1

(***************************************************************************)
(* DirectoryCollection: a collection over a directory of the filesystem.   *)
(* A name is the sequence of the components of a path, relative to         *)
(* m_filepath when it names an entry.                                      *)
(***************************************************************************)
MATCH == "MATCH"
IGNORE == "IGNORE"

\* What a directory iterator yields: the name, and whether it is a
\* directory; items is what is in it.  Every directory lists "." and "..".
FileItem(n) == [ name |-> n, is_directory |-> FALSE, items |-> << >> ]

DirItem(n, items) ==
    [ name |-> n, is_directory |-> TRUE,
      items |-> << [ name |-> ".", is_directory |-> TRUE, items |-> << >> ],
                   [ name |-> "..", is_directory |-> TRUE, items |-> << >> ] >>
                \o items ]

\* The item a path leads to, from the directory d: d itself for the empty
\* path, no item if a component is missing or leads through a file.
RECURSIVE Resolve(_, _)
Resolve(d, path) ==
    IF path = << >> THEN << d >>
    ELSE IF ~d.is_directory THEN << >>
    ELSE LET hit == { i \in 1 .. Len(d.items) :
                        d.items[i].name = Head(path) }
         IN  IF hit = { } THEN << >>
             ELSE Resolve(d.items[CHOOSE i \in hit : TRUE], Tail(path))

\* m_filepath.isDirectory()
isDirectory(d) == d.is_directory

\* std::ifstream( m_filepath + name ) opens: the name leads to a file or
\* to a directory (a directory opens, and its first read fails).
Opens(d, name) == Resolve(d, name) # << >>

\* A DirEntry of that name under m_filepath is valid: there is a file of
\* that name.
DirEntry_isValid(d, name) ==
    /\ Resolve(d, name) # << >>
    /\ ~Resolve(d, name)[1].is_directory

\* load( recursive, subdir ): the names pushed onto m_entries, in the order
\* of the walk, when nothing stops it.
RECURSIVE load(_, _, _)
load(items, recursive, subdir) ==
    IF items = << >> THEN << >>
    ELSE LET it   == Head(items)
             rest == load(Tail(items), recursive, subdir)
         IN  IF it.name \in { ".", "..", "..." } THEN rest
             ELSE IF it.is_directory /\ recursive
               THEN load(it.items, recursive, Append(subdir, it.name))
                    \o rest
             ELSE << Append(subdir, it.name) >> \o rest

\* The walk may be stopped by an error of the filesystem: failure is the
\* number of entries pushed before it, or NoFailure.
NoFailure == -1

Stops(walk, failure) == failure # NoFailure /\ failure < Len(walk)

\* loadEntries() that sets the flag before it walks.
loadEntries_FlagFirst(st, d, failure) ==
    IF st.loaded THEN [ st |-> st, threw |-> FALSE, walked |-> 0 ]
    ELSE LET walk == load(d.items, st.recursive, << >>)
         IN  IF Stops(walk, failure)
               THEN [ st |-> [ st EXCEPT
                                 !.loaded = TRUE,
                                 !.entries =
                                     st.entries \o SubSeq(walk, 1, failure) ],
                      threw |-> TRUE, walked |-> 0 ]
               ELSE [ st |-> [ st EXCEPT !.loaded = TRUE,
                                         !.entries = st.entries \o walk ],
                      threw |-> FALSE, walked |-> 1 ]

\* loadEntries(): nothing if the entries are loaded; else the walk, which
\* pushes onto m_entries as it goes, and then the flag.  walked counts the
\* walk if it came to its end.
loadEntries(st, d, failure) ==
    IF st.loaded THEN [ st |-> st, threw |-> FALSE, walked |-> 0 ]
    ELSE LET walk == load(d.items, st.recursive, << >>)
         IN  IF Stops(walk, failure)
               THEN [ st |-> [ st EXCEPT
                                 !.entries =
                                     st.entries \o SubSeq(walk, 1, failure) ],
                      threw |-> TRUE, walked |-> 0 ]
               ELSE [ st |-> [ st EXCEPT !.loaded = TRUE,
                                         !.entries = st.entries \o walk ],
                      threw |-> FALSE, walked |-> 1 ]

\* The tail relation of the index: n is q, or n ends in "/" and q.
IsTail(q, n) ==
    /\ Len(q) <= Len(n)
    /\ SubSeq(n, Len(n) - Len(q) + 1, Len(n)) = q

Matches(q, n, matchpath) == IF matchpath = MATCH THEN IsTail(q, n) ELSE n = q

\* What a call gives back: nothing, an entry, a stream on a path (good if
\* it opened), a list of entries, a number.
None == [ kind |-> "none", val |-> << >>, good |-> FALSE ]
AnEntry(n) == [ kind |-> "entry", val |-> n, good |-> TRUE ]
AStream(path, good) == [ kind |-> "stream", val |-> path, good |-> good ]
AList(q) == [ kind |-> "list", val |-> q, good |-> TRUE ]
ANumber(n) == [ kind |-> "number", val |-> << n >>, good |-> TRUE ]

\* FileCollection::getEntry( name, matchpath ): the first entry that
\* matches, in insertion order.
FileCollection_getEntry(entries, name, matchpath) ==
    LET hit == { i \in 1 .. Len(entries) :
                   Matches(name, entries[i], matchpath) }
    IN  IF hit = { } THEN None
        ELSE AnEntry(entries[CHOOSE i \in hit : \A j \in hit : i <= j])

\* mustBeValid() throws if the collection is not valid.
mustBeValid(st) == st.valid

Threw(st) == [ st |-> st, threw |-> TRUE, walked |-> 0, ret |-> None ]

\* close()
close(st) == [ st EXCEPT !.valid = FALSE ]

\* What a call that went as far as loadEntries() gives back.
Loaded(l, ret) ==
    [ st |-> l.st, threw |-> l.threw, walked |-> l.walked,
      ret |-> IF l.threw THEN None ELSE ret ]

\* entries()
entries(st, d, failure) ==
    IF ~mustBeValid(st) THEN Threw(st)
    ELSE LET l == loadEntries(st, d, failure)
         IN  Loaded(l, AList(l.st.entries))

\* getEntry( name, matchpath ): the lookup in the entries, loaded if need
\* be; for MATCH while the entries are not loaded, a DirEntry of that name
\* under m_filepath if it is valid.
getEntry(st, d, name, matchpath, failure) ==
    IF ~mustBeValid(st) THEN Threw(st)
    ELSE IF matchpath # MATCH \/ st.loaded
      THEN LET l == loadEntries(st, d, failure)
           IN  Loaded(l, FileCollection_getEntry(l.st.entries, name,
                                                 matchpath))
    ELSE [ st |-> st, threw |-> FALSE, walked |-> 0,
           ret |-> IF DirEntry_isValid(d, name) THEN AnEntry(name)
                   ELSE None ]

\* getInputStream( entry_name, matchpath ): the stream is opened on
\* m_filepath + entry_name.
getInputStream(st, d, entry_name, matchpath, failure) ==
    IF ~mustBeValid(st) THEN Threw(st)
    ELSE IF matchpath # MATCH \/ st.loaded
      THEN LET l   == loadEntries(st, d, failure)
               ent == getEntry(l.st, d, entry_name, matchpath, failure)
           IN  Loaded(l, IF ent.ret = None THEN None
                         ELSE AStream(entry_name, Opens(d, entry_name)))
    ELSE [ st |-> st, threw |-> FALSE, walked |-> 0,
           ret |-> IF Opens(d, entry_name) THEN AStream(entry_name, TRUE)
                   ELSE None ]

\* getInputStream( entry ): by the name of the entry, with MATCH.
getInputStream_entry(st, d, entry, failure) ==
    IF ~mustBeValid(st) THEN Threw(st)
    ELSE getInputStream(st, d, entry, MATCH, failure)

\* size() that does not ask whether the collection is valid.
size_NoCheck(st, d, failure) ==
    LET l == loadEntries(st, d, failure)
    IN  Loaded(l, ANumber(Len(l.st.entries)))

\* size()
size(st, d, failure) ==
    IF ~mustBeValid(st) THEN Threw(st)
    ELSE LET l == loadEntries(st, d, failure)
         IN  Loaded(l, ANumber(Len(l.st.entries)))

(***************************************************************************)
(* A collection over a directory, and its caller.                          *)
(***************************************************************************)
MaxDirCalls == 3

\* A directory with a file and a subdirectory with a file; one where a file
\* of the subdirectory, listed first, has the name of a file beside it; and
\* a path that is a file.
Trees ==
    { DirItem("root", << FileItem("a.txt"),
                         DirItem("sub", << FileItem("x.h") >>) >>),
      DirItem("root", << DirItem("sub", << FileItem("x.h") >>),
                         FileItem("x.h") >>),
      FileItem("root") }

Names ==
    { << "a.txt" >>, << "x.h" >>, << "sub", "x.h" >>, << "sub" >>,
      << "nope" >> }

MatchPaths == { MATCH, IGNORE }

Failures == { NoFailure, 1 }

DCur ==
    [ valid |-> m_valid, loaded |-> m_entries_loaded,
      recursive |-> m_recursive, entries |-> m_entries ]

DBecomes(st) ==
    /\ m_valid' = st.valid
    /\ m_entries_loaded' = st.loaded
    /\ m_recursive' = st.recursive
    /\ m_entries' = st.entries
    /\ dirfs' = dirfs

\* DirectoryCollection( path, recursive, load_now ).  If the walk of
\* load_now stops, the constructor throws and there is no collection.
DirectoryCollection(d, recursive, load_now) ==
    LET st == [ valid |-> isDirectory(d), loaded |-> FALSE,
                recursive |-> recursive, entries |-> << >> ]
    IN  IF st.valid /\ load_now THEN loadEntries(st, d, NoFailure).st
        ELSE st

\* What the history keeps of a call: its name and arguments, what it gave
\* back, the collection as it was before, whether close() had been called
\* before, and how many walks came to their end so far.
DCall(op, name, matchpath, r) ==
    [ op |-> op, name |-> name, matchpath |-> matchpath,
      threw |-> r.threw, ret |-> r.ret, n |-> dhist.n + 1,
      before |-> DCur, closed |-> dhist.closed \/ dhist.op = "close",
      walks |-> dhist.walks + r.walked ]

DirInit ==
    \E d \in Trees, recursive \in BOOLEAN, load_now \in BOOLEAN :
        \E st \in { DirectoryCollection(d, recursive, load_now) } :
            /\ m_valid = st.valid
            /\ m_entries_loaded = st.loaded
            /\ m_recursive = st.recursive
            /\ m_entries = st.entries
            /\ dirfs = d
            /\ dhist = [ op |-> "new", name |-> << >>, matchpath |-> MATCH,
                         threw |-> FALSE, ret |-> None, n |-> 0,
                         before |-> st, closed |-> FALSE,
                         walks |-> IF st.loaded THEN 1 ELSE 0 ]
            /\ outbuf = << >> /\ outpos = 0 /\ _entries = << >>
            /\ _open_entry = FALSE /\ _open = FALSE /\ _method = DEFLATED
            /\ _level = 6 /\ _zip_comment = << >> /\ codec = << >>
            /\ offered = << >> /\ calls = << >> /\ last = << >>
            /\ CodecOff
            /\ ReaderOff
        
DEntries ==
    \E failure \in Failures :
        \E r \in { entries(DCur, dirfs, failure) } :
            /\ dhist.n < MaxDirCalls
            /\ DBecomes(r.st)
            /\ dhist' = DCall("entries", << >>, MATCH, r)
            /\ UNCHANGED << vars, cvars, rvars >>

DGetEntry ==
    \E name \in Names, matchpath \in MatchPaths, failure \in Failures :
        \E r \in { getEntry(DCur, dirfs, name, matchpath, failure) } :
            /\ dhist.n < MaxDirCalls
            /\ DBecomes(r.st)
            /\ dhist' = DCall("getEntry", name, matchpath, r)
            /\ UNCHANGED << vars, cvars, rvars >>

DGetInputStream ==
    \E name \in Names, matchpath \in MatchPaths, failure \in Failures :
        \E r \in { getInputStream(DCur, dirfs, name, matchpath, failure) } :
            /\ dhist.n < MaxDirCalls
            /\ DBecomes(r.st)
            /\ dhist' = DCall("getInputStream", name, matchpath, r)
            /\ UNCHANGED << vars, cvars, rvars >>

\* The entry handed in is one the caller holds: one of the names.
DGetInputStreamEntry ==
    \E name \in Names, failure \in Failures :
        \E r \in { getInputStream_entry(DCur, dirfs, name, failure) } :
            /\ dhist.n < MaxDirCalls
            /\ DBecomes(r.st)
            /\ dhist' = DCall("getInputStream_entry", name, MATCH, r)
            /\ UNCHANGED << vars, cvars, rvars >>

DSize ==
    \E failure \in Failures :
        \E r \in { size(DCur, dirfs, failure) } :
            /\ dhist.n < MaxDirCalls
            /\ DBecomes(r.st)
            /\ dhist' = DCall("size", << >>, MATCH, r)
            /\ UNCHANGED << vars, cvars, rvars >>

DClose ==
    /\ dhist.n < MaxDirCalls
    /\ DBecomes(close(DCur))
    /\ dhist' = DCall("close", << >>, MATCH,
                      [ threw |-> FALSE, ret |-> None, walked |-> 0 ])
    /\ UNCHANGED << vars, cvars, rvars >>

DirNext ==
    \/ DEntries
    \/ DGetEntry
    \/ DGetInputStream
    \/ DGetInputStreamEntry
    \/ DSize
    \/ DClose

DirSpec == DirInit /\ [][DirNext]_dvars

(***************************************************************************)
(* What the claims about the collection speak of.                          *)
(***************************************************************************)
Fetches ==
    { "entries", "getEntry", "getInputStream", "getInputStream_entry",
      "size" }

\* The entries a whole walk of the directory gives.
WholeWalk == load(dirfs.items, m_recursive, << >>)

NoDuplicates(q) == \A i, j \in 1 .. Len(q) : q[i] = q[j] => i = j

(***************************************************************************)
(* C21.  close() leaves the collection invalid and nothing makes it valid  *)
(* again; every entries(), getEntry(), getInputStream() (by name or by     *)
(* entry) and size() called after it throws, gives nothing back and        *)
(* leaves the entries and the loaded flag as they were: the directory is   *)
(* not read.                                                               *)
(***************************************************************************)
C21_ClosedCollectionRejects ==
    /\ dhist.op = "close" => ~m_valid
    /\ dhist.closed =>
           /\ ~m_valid
           /\ dhist.op \in Fetches =>
                  /\ dhist.threw
                  /\ dhist.ret = None
                  /\ DCur = dhist.before

\* Each of the five calls, made after close() on a collection over a
\* directory whose entries were not loaded.
C21_Witness ==
    /\ dhist.closed
    /\ dhist.op \in { "size", "getInputStream_entry" }
    /\ isDirectory(dirfs)
    /\ ~dhist.before.loaded
    /\ dhist.threw

(***************************************************************************)
(* C22.  getInputStream( name, mode ) gives nothing when getEntry( name,   *)
(* mode ) gives nothing, and else a stream opened on the file of the       *)
(* entry getEntry( name, mode ) gives.                                     *)
(***************************************************************************)
C22_StreamIsOfMatchedEntry ==
    (dhist.op = "getInputStream" /\ ~dhist.threw) =>
        LET e == getEntry(dhist.before, dirfs, dhist.name, dhist.matchpath,
                          NoFailure).ret
        IN  IF e = None THEN dhist.ret = None
            ELSE dhist.ret = AStream(e.val, TRUE)

(***************************************************************************)
(* C27.  On any sequence of calls the directory is walked to its end at    *)
(* most once, the loaded flag is set only once a walk came to its end,     *)
(* and no file is twice in the entries, also when a walk was stopped by    *)
(* an error and a later call loads again.                                  *)
(***************************************************************************)
C27_LazyLoad ==
    /\ dhist.walks <= 1
    /\ m_entries_loaded => dhist.walks = 1
    /\ NoDuplicates(m_entries)

\* What does hold of the loading: one whole walk at most, the flag only
\* after it, and every file of the walk in the entries once the flag is
\* set.
LoadsOnce ==
    /\ dhist.walks <= 1
    /\ m_entries_loaded => dhist.walks = 1
    /\ m_entries_loaded =>
           \A i \in 1 .. Len(WholeWalk) :
               \E j \in 1 .. Len(m_entries) : m_entries[j] = WholeWalk[i]

(***************************************************************************)
(* C28.  getEntry( name, MATCH ) gives the same answer, the same entry or  *)
(* none, whether or not the entries were loaded when it was called: the    *)
(* answer the lookup in the loaded entries gives.                          *)
(***************************************************************************)
C28_GetEntryIndependentOfLoad ==
    (dhist.op = "getEntry" /\ dhist.matchpath = MATCH /\ ~dhist.threw) =>
        dhist.ret = FileCollection_getEntry(WholeWalk, dhist.name, MATCH)

====
